---- MODULE Spec2Model ----
(***************************************************************************)
(* Model of the deadpool fixed-region heap allocator (src/src/allocator.c, *)
(* the aligned best-fit version, lines 169-460).                           *)
(*                                                                         *)
(* Memory is an array of 8-byte words.  A block_header occupies three      *)
(* words (next, size, is_free + padding), the reverse-offset byte at       *)
(* user_ptr - 1 is the most significant byte of the word at user_ptr - 8.  *)
(* size_t / uintptr_t arithmetic is unsigned and wraps; the word is        *)
(* narrowed to 24 bits, SizeMod (all addresses of the model are far below  *)
(* 2^16, so a wrapped value is exactly a value >= 2^16, as a wrapped       *)
(* 64-bit value is one >= 2^56).                                           *)
(***************************************************************************)
EXTENDS Integers, Sequences, FiniteSets, TLC

\* ---------------------------------------------------------------- bounds
MemTop == 280        \* bytes of memory the model represents (mapped up to here)
MaxBufSize == 128    \* the buffer_size of the buffers dp_init accepts
MaxReq == 24         \* largest request size passed to dp_malloc
ReplayDepth == 3     \* calls in a sequence replayed on two arenas
MaxFreed == 2        \* pointers freed in the runs of ReuseSpec

\* ------------------------------------------------------ program constants
NULL == 0
WordSize == 8                 \* sizeof(size_t) == sizeof(void *)
HeaderSize == 24              \* sizeof(block_header)
default_align == 16           \* alignof(max_align_t)
SizeMod == 16777216           \* 2^WordBits, WordBits = 24
UINTPTR_MAX == SizeMod - 1
TopByte == 65536              \* weight of the most significant byte of a word
NextOff == 0                  \* offsetof(block_header, next)
SizeOff == 8                  \* offsetof(block_header, size)
IsFreeOff == 16               \* offsetof(block_header, is_free)
ArenaId == 1                  \* the dp_alloc the calls are made on (NULL: none)

\* ------------------------------------------------------------- inputs
Bases == {64, 73}
Bases_aligned == 64
BufSizes == {MaxBufSize}
BadBufSizes == {HeaderSize - 1, HeaderSize}
ReqSizes == {n \in 1..MaxReq : n % 16 \in {1, 8}}
NoArenaSizes == {0, MaxReq}    \* sizes asked of a NULL allocator

WordAddrs == {a \in 0..(MemTop - 1) : a % WordSize = 0 /\ a + WordSize <= MemTop}

VARIABLES
  status,          \* "uninit" | "run" | "fault" | "hang"
  buffer,          \* dp_alloc.buffer
  buffer_size,     \* dp_alloc.buffer_size
  available,       \* dp_alloc.available
  free_list_head,  \* dp_alloc.free_list_head
  mem,             \* the memory, word by word
  live,            \* the caller's live allocations: records [p, n, h]
  dead,            \* pointers that were returned and have been freed since
  leak,            \* words the allocator wrote that are not inside the arena
  last             \* the last call: [op, on, arg, ret, blk, aux, pre]

vars == <<status, buffer, buffer_size, available, free_list_head,
          mem, live, dead, leak, last>>

\* ------------------------------------------------------------ arithmetic
Wrap(x) == x % SizeMod

\* allocator.c:183  (address + (alignment - 1)) & ~(alignment - 1)
align_address(address, alignment) ==
  LET t == Wrap(address + (alignment - 1)) IN t - (t % alignment)

\* ---------------------------------------------------------------- memory
\* a is the address of a word of mapped memory; any other access faults
Mapped(a) == a % WordSize = 0 /\ a >= WordSize /\ a \in WordAddrs

RdNext(m, h) == m[h + NextOff]
RdSize(m, h) == m[h + SizeOff]
RdIsFree(m, h) == (m[h + IsFreeOff] % 256) # 0
WrNext(m, h, v) == [m EXCEPT ![h + NextOff] = v]
WrSize(m, h, v) == [m EXCEPT ![h + SizeOff] = v]
WrIsFree(m, h, b) ==
  [m EXCEPT ![h + IsFreeOff] = (@ \div 256) * 256 + (IF b THEN 1 ELSE 0)]
\* the byte at p - 1 is the top byte of the word at p - 8 (p is word aligned)
RdOffset(m, p) == m[p - WordSize] \div TopByte
WrOffset(m, p, o) == [m EXCEPT ![p - WordSize] = (@ % TopByte) + (o % 256) * TopByte]

HdrMapped(h) == Mapped(h) /\ Mapped(h + SizeOff) /\ Mapped(h + IsFreeOff)

\* bytes [lo, hi) lie inside the arena
InArena(lo, hi) == buffer <= lo /\ lo <= hi /\ hi <= buffer + buffer_size
\* the byte spans <<address, length>> of the fields of the header at h
NextSpan(h) == <<h + NextOff, WordSize>>
SizeSpan(h) == <<h + SizeOff, WordSize>>
IsFreeSpan(h) == <<h + IsFreeOff, 1>>
HdrSpans(h) == {NextSpan(h), SizeSpan(h), IsFreeSpan(h)}
\* the words of the written spans that are not wholly inside the arena
Outside(spans) == {sp[1] - (sp[1] % WordSize) : sp \in {x \in spans : ~InArena(x[1], x[1] + x[2])}}

\* allocator.c:398-399  the header dp_free reconstructs from a user pointer
HeaderOf(m, p) == Wrap(p - RdOffset(m, p) - HeaderSize)

\* allocator.c:187
next_phys(m, block) == Wrap(block + RdSize(m, block) + HeaderSize)

Init ==
  /\ status = "uninit"
  /\ buffer = NULL
  /\ buffer_size = 0
  /\ available = 0
  /\ free_list_head = NULL
  /\ mem = [a \in WordAddrs |-> 0]
  /\ live = {}
  /\ dead = {}
  /\ leak = {}
  /\ last = [op |-> "none", on |-> NULL, arg |-> 0, ret |-> 0, blk |-> NULL,
              aux |-> 0, pre |-> 0]

\* allocator.c:191-214
\* the arena accepted when nothing is left behind its first header
TooSmallAfterAlign_strict(size, alignment_offset) ==
  size < Wrap(alignment_offset + HeaderSize)

\* allocator.c:198  buffer_size <= alignment_offset + sizeof(block_header)
TooSmallAfterAlign(size, alignment_offset) ==
  size <= Wrap(alignment_offset + HeaderSize)

\* the first block given the whole arena, its own header included
FirstBlockSize_with_header(bs) == bs

\* allocator.c:208  header->size = allocator->buffer_size - sizeof(block_header)
FirstBlockSize(bs) == Wrap(bs - HeaderSize)

dp_init(buf, size) ==
  /\ status = "uninit"
  /\ LET refused == /\ last' = [op |-> "init", on |-> ArenaId, arg |-> size, ret |-> 0,
                                 blk |-> NULL, aux |-> buf, pre |-> available]
                    /\ UNCHANGED <<status, buffer, buffer_size, available,
                                   free_list_head, mem, live, dead, leak>>
     IN IF buf = NULL \/ size < HeaderSize THEN refused
        ELSE LET aligned_start == align_address(buf, default_align)
                 alignment_offset == Wrap(aligned_start - buf)
             IN IF TooSmallAfterAlign(size, alignment_offset) THEN refused
                ELSE LET bs == Wrap(size - alignment_offset)
                         header == aligned_start
                         m1 == WrSize(mem, header, FirstBlockSize(bs))
                         m2 == WrIsFree(m1, header, TRUE)
                         m3 == WrNext(m2, header, NULL)
                     IN /\ status' = "run"
                        /\ buffer' = aligned_start
                        /\ buffer_size' = bs
                        /\ available' = Wrap(bs - HeaderSize)
                        /\ mem' = m3
                        /\ free_list_head' = header
                        /\ last' = [op |-> "init", on |-> ArenaId, arg |-> size, ret |-> 1,
                                     blk |-> header, aux |-> buf, pre |-> available]
                        /\ UNCHANGED <<live, dead, leak>>

\* the test for a NULL allocator left out
NoArena_unchecked(allocator) == FALSE

\* allocator.c:238  allocator == NULL
NoArena(allocator) == allocator = NULL

\* a candidate as good as the best so far replaces it
Better_or_equal(fit, min_fit) == fit <= min_fit

\* allocator.c:259  the candidate leaves less than the best so far
Better(fit, min_fit) == fit < min_fit

\* the header of a block counted into what the block must hold
Fits_with_header(alloc_size, block_size) == alloc_size + HeaderSize <= block_size

\* allocator.c:257  the candidate can hold the request with its padding
Fits(alloc_size, block_size) == alloc_size <= block_size

\* a walk of more steps than there are words of memory is a walk round a cycle
Fuel == Cardinality(WordAddrs) + 1

\* the walk left at the first candidate that can hold the request
PerfectFit_any(min_fit) == TRUE

\* allocator.c:265  if (min_fit == 0) break
PerfectFit(min_fit) == min_fit = 0

\* The do-while of dp_malloc (allocator.c:251-271).
\* w is [best_fit, prev_best_fit, best_fit_alloc_size, min_fit, num_iterations, out];
\* num_iterations is the field of the stats build (allocator.c:249, 270).
RECURSIVE BestFitWalk(_, _, _, _, _, _)
BestFitWalk(m, current, prev, w, size, fuel) ==
  IF fuel = 0 THEN [w EXCEPT !.out = "hang"]
  ELSE IF ~HdrMapped(current) THEN [w EXCEPT !.out = "fault"]
  ELSE
    LET block_start == Wrap(current + HeaderSize)
        aligned_user_ptr == align_address(Wrap(block_start + 1), default_align)
        padding == Wrap(aligned_user_ptr - block_start)
        alloc_size == Wrap(size + padding)
        csize == RdSize(m, current)
        fits == Fits(alloc_size, csize)
        fit == Wrap(csize - alloc_size)
        w1 == IF fits /\ Better(fit, w.min_fit)
              THEN [w EXCEPT !.best_fit = current, !.prev_best_fit = prev,
                             !.best_fit_alloc_size = alloc_size, !.min_fit = fit]
              ELSE w
        nxt == RdNext(m, current)
        \* num_iterations starts at 1 and grows by one at the end of every
        \* pass of the loop that does not break; fuel falls by one with it
        passes == Fuel - fuel
    IN IF fits /\ PerfectFit(w1.min_fit)
       THEN [w1 EXCEPT !.num_iterations = 1 + passes]
       ELSE IF nxt = NULL THEN [w1 EXCEPT !.num_iterations = 1 + passes + 1]
       ELSE BestFitWalk(m, nxt, current, w1, size, fuel - 1)

NoFit == [best_fit |-> NULL, prev_best_fit |-> NULL, best_fit_alloc_size |-> 0,
          min_fit |-> UINTPTR_MAX, num_iterations |-> 1, out |-> "ok"]

\* the end of the allocation rounded down to the alignment
RoundedAllocSize_rounded_down(best_fit, best_fit_alloc_size) ==
  LET end == Wrap(best_fit + HeaderSize + best_fit_alloc_size)
  IN Wrap(end - (end % default_align) - best_fit - HeaderSize)

\* allocator.c:276-278: the allocation size with its end rounded up to the alignment
RoundedAllocSize(best_fit, best_fit_alloc_size) ==
  Wrap(align_address(Wrap(best_fit + HeaderSize + best_fit_alloc_size), default_align)
       - best_fit - HeaderSize)

\* allocator.c:310-312: the user pointer of the block at best_fit
UserPtr(best_fit) == align_address(Wrap(Wrap(best_fit + HeaderSize) + 1), default_align)

\* the distance to the header start stored instead of the distance to its end
OffsetByte_from_header(best_fit, aligned_user_ptr) ==
  Wrap(aligned_user_ptr - best_fit) % 256

\* allocator.c:312  the reverse offset, truncated to a byte
OffsetByte(best_fit, aligned_user_ptr) ==
  Wrap(aligned_user_ptr - Wrap(best_fit + HeaderSize)) % 256

\* is_free left as it was
MarkAllocated_keeps_flag(m, best_fit, actual_alloc_size) ==
  WrNext(WrSize(m, best_fit, actual_alloc_size), best_fit, NULL)

\* allocator.c:305-307  the header of the block handed out
MarkAllocated(m, best_fit, actual_alloc_size) ==
  WrNext(WrIsFree(WrSize(m, best_fit, actual_alloc_size), best_fit, FALSE), best_fit, NULL)

\* the request charged to available before it is refused
dp_malloc_null_charging(allocator, size) ==
  /\ last' = [op |-> "malloc", on |-> allocator, arg |-> size, ret |-> NULL,
              blk |-> NULL, aux |-> 0, pre |-> available]
  /\ available' = Wrap(available - size)
  /\ UNCHANGED <<status, buffer, buffer_size, free_list_head, mem, live, dead, leak>>

\* allocator.c:240, 274  return NULL
dp_malloc_null(allocator, size) ==
  /\ last' = [op |-> "malloc", on |-> allocator, arg |-> size, ret |-> NULL,
              blk |-> NULL, aux |-> 0, pre |-> available]
  /\ UNCHANGED <<status, buffer, buffer_size, available,
                 free_list_head, mem, live, dead, leak>>

\* allocator.c:240, 274  dp_malloc returns NULL and leaves the arena as it is.
\* The result of dp_malloc on an arena is
\* [out, ret, m, head, avail, blk, whole, wr, num_iterations, log]; log is the
\* sequence of the logger callbacks invoked in a build with DP_LOG.
malloc_null(m, head, avail, out, num_iterations) ==
  [out |-> out, ret |-> NULL, m |-> m, head |-> head, avail |-> avail,
   blk |-> NULL, whole |-> TRUE, wr |-> {}, num_iterations |-> num_iterations,
   log |-> <<>>]

\* allocator.c:316-318  what a successful dp_malloc logs
MallocLog == <<"info">>

\* allocator.c:276-320: the block best_fit of size bsize handed out, whole or
\* split at the rounded size
malloc_take(m, head, avail, best_fit, prev_best_fit, rounded, bsize, num_iterations) ==
  LET next_block_addr == Wrap(best_fit + HeaderSize + rounded)
      remainder == Wrap(bsize - rounded)
      whole == remainder < HeaderSize
      actual_alloc_size == IF whole THEN bsize ELSE rounded
      new_best_fit == next_block_addr
      is_head == best_fit = head
      \* the split branch writes the new header first
      m1 == IF whole THEN m
            ELSE WrNext(WrIsFree(WrSize(m, new_best_fit,
                                        Wrap(bsize - rounded - HeaderSize)),
                                 new_best_fit, TRUE),
                        new_best_fit, RdNext(m, best_fit))
      link == IF whole THEN RdNext(m, best_fit) ELSE new_best_fit
      m2 == IF is_head THEN m1 ELSE WrNext(m1, prev_best_fit, link)
      head2 == IF is_head THEN link ELSE head
      avail2 == IF whole THEN avail ELSE Wrap(avail - HeaderSize)
      m3 == MarkAllocated(m2, best_fit, actual_alloc_size)
      aligned_user_ptr == UserPtr(best_fit)
      offset == OffsetByte(best_fit, aligned_user_ptr)
      touched_ok ==
        /\ whole \/ HdrMapped(new_best_fit)
        /\ is_head \/ HdrMapped(prev_best_fit)
        /\ Mapped(aligned_user_ptr - WordSize)
      written ==
        (IF whole THEN {} ELSE HdrSpans(new_best_fit))
        \cup (IF is_head THEN {} ELSE {NextSpan(prev_best_fit)})
        \cup HdrSpans(best_fit)
        \cup {<<aligned_user_ptr - 1, 1>>}
  IN IF ~touched_ok THEN malloc_null(m, head, avail, "fault", num_iterations)
     ELSE [out |-> "ok", ret |-> aligned_user_ptr,
           m |-> WrOffset(m3, aligned_user_ptr, offset),
           head |-> head2, avail |-> Wrap(avail2 - actual_alloc_size),
           blk |-> best_fit, whole |-> whole, wr |-> written,
           num_iterations |-> num_iterations,
           \* allocator.c:316  DP_INFO
           log |-> MallocLog]

\* allocator.c:273-279: what the walk w found
malloc_best_fit(m, head, avail, w) ==
  IF w.out # "ok" THEN malloc_null(m, head, avail, w.out, w.num_iterations)
  ELSE IF w.best_fit = NULL THEN malloc_null(m, head, avail, "null", w.num_iterations)
  ELSE malloc_take(m, head, avail, w.best_fit, w.prev_best_fit,
                   RoundedAllocSize(w.best_fit, w.best_fit_alloc_size),
                   RdSize(m, w.best_fit), w.num_iterations)

\* allocator.c:235-320: dp_malloc on the arena with memory m, free list head
\* and available avail, for size > 0; out is "null" for return NULL
malloc_step(m, head, avail, size) ==
  LET max_padding == default_align - 1 + 1
      min_alloc_size == Wrap(size + max_padding)
  \* num_iterations keeps the value it had: 0 stands for it
  IN IF min_alloc_size > avail \/ head = NULL THEN malloc_null(m, head, avail, "null", 0)
     ELSE malloc_best_fit(m, head, avail, BestFitWalk(m, head, NULL, NoFit, size, Fuel))

\* allocator.c:216-321
dp_malloc(allocator, size) ==
  /\ status = "run"
  /\ LET refused == dp_malloc_null(allocator, size)
         stop(how) == /\ status' = how
                      /\ last' = [op |-> "malloc", on |-> allocator, arg |-> size, ret |-> NULL,
                                 blk |-> NULL, aux |-> 0, pre |-> available]
                      /\ UNCHANGED <<buffer, buffer_size, available,
                                     free_list_head, mem, live, dead, leak>>
     IN IF size = 0 \/ NoArena(allocator) THEN refused
        \* allocator->available read through a NULL allocator
        ELSE IF allocator = NULL THEN stop("fault")
        ELSE
          \E r \in {malloc_step(mem, free_list_head, available, size)} :
             IF r.out = "null" THEN refused
             ELSE IF r.out # "ok" THEN stop(r.out)
             ELSE
               /\ mem' = r.m
               /\ free_list_head' = r.head
               /\ available' = r.avail
               /\ live' = live \cup {[p |-> r.ret, n |-> size, h |-> r.blk]}
               /\ dead' = dead \ {r.ret}
               /\ leak' = leak \cup Outside(r.wr)
               /\ last' = [op |-> "malloc", on |-> allocator, arg |-> size,
                           ret |-> r.ret, blk |-> r.blk,
                           aux |-> IF r.whole THEN 0 ELSE 1, pre |-> available]
               /\ UNCHANGED <<status, buffer, buffer_size>>

\* the header of free_block left out of its extent
IsRightNeighbour_no_header(m, free_block, current) ==
  Wrap(free_block + RdSize(m, free_block)) = current
\* the absorbed header not added to the size
MergedSize_no_header(left_size, right_size) == Wrap(left_size + right_size)

\* a free block that ends where free_block starts never recognised
IsLeftNeighbour_never(m, free_block, current) == FALSE

\* allocator.c:341-344, 358-361  the other neighbour was found before: break
WalkDone(other) == other # NULL

\* allocator.c:330  current starts where free_block ends
IsRightNeighbour(m, free_block, current) == next_phys(m, free_block) = current
\* allocator.c:347  free_block starts where current ends
IsLeftNeighbour(m, free_block, current) == next_phys(m, current) = free_block
\* allocator.c:375, 383  the size of a block that absorbs its right neighbour
MergedSize(left_size, right_size) == Wrap(left_size + HeaderSize + right_size)

\* The while loop of coalsce (allocator.c:329-367).
\* c is [m, head, current, prev, left, right, out, wr].
RECURSIVE CoalsceWalk(_, _, _)
CoalsceWalk(c, free_block, fuel) ==
  IF c.current = NULL THEN c
  ELSE IF fuel = 0 THEN [c EXCEPT !.out = "hang"]
  ELSE IF ~HdrMapped(c.current) THEN [c EXCEPT !.out = "fault"]
  ELSE
    LET current == c.current
        nx == RdNext(c.m, current)
        at_head == current = c.head
        \* unlink current: head or prev->next takes current->next, current->next = NULL
        unlinked == [c EXCEPT
                       !.m = WrNext(IF at_head THEN c.m ELSE WrNext(c.m, c.prev, nx),
                                    current, NULL),
                       !.head = IF at_head THEN nx ELSE c.head,
                       !.current = nx,
                       !.wr = c.wr \cup {NextSpan(current)}
                                   \cup (IF at_head THEN {} ELSE {NextSpan(c.prev)})]
        is_right == IsRightNeighbour(c.m, free_block, current)
        is_left == IsLeftNeighbour(c.m, free_block, current)
    IN IF (is_right \/ is_left) /\ ~at_head /\ ~HdrMapped(c.prev)
       THEN [c EXCEPT !.out = "fault"]
       ELSE IF is_right
       THEN LET c2 == [unlinked EXCEPT !.right = current]
            IN IF WalkDone(c.left) THEN c2 ELSE CoalsceWalk(c2, free_block, fuel - 1)
       ELSE IF is_left
       THEN LET c2 == [unlinked EXCEPT !.left = current]
            IN IF WalkDone(c.right) THEN c2 ELSE CoalsceWalk(c2, free_block, fuel - 1)
       ELSE CoalsceWalk([c EXCEPT !.prev = current, !.current = nx], free_block, fuel - 1)

\* allocator.c:323-390; the result is [m, head, avail, block, left, right, out, wr]
coalsce(m0, head0, avail0, free_block) ==
  LET c == CoalsceWalk([m |-> m0, head |-> head0, current |-> head0, prev |-> NULL,
                        left |-> NULL, right |-> NULL, out |-> "ok", wr |-> {}],
                       free_block, Fuel)
      m1 == IF c.left # NULL
            THEN WrSize(c.m, c.left,
                        MergedSize(RdSize(c.m, c.left), RdSize(c.m, free_block)))
            ELSE c.m
      a1 == IF c.left # NULL THEN Wrap(avail0 + HeaderSize) ELSE avail0
      fb == IF c.left # NULL THEN c.left ELSE free_block
      m2 == IF c.right # NULL
            THEN WrSize(m1, fb, MergedSize(RdSize(m1, fb), RdSize(m1, c.right)))
            ELSE m1
      a2 == IF c.right # NULL THEN Wrap(a1 + HeaderSize) ELSE a1
  IN IF c.out # "ok"
     THEN [m |-> m0, head |-> head0, avail |-> avail0, block |-> free_block,
           left |-> NULL, right |-> NULL, out |-> c.out, wr |-> {}]
     ELSE [m |-> m2, head |-> c.head, avail |-> a2, block |-> fb,
           left |-> c.left, right |-> c.right, out |-> "ok",
           wr |-> c.wr \cup (IF c.left # NULL \/ c.right # NULL THEN {SizeSpan(fb)} ELSE {})]

LivePtrs == {a.p : a \in live}

\* the test for a NULL pointer left out
IsNullPtr_never(ptr) == FALSE

\* allocator.c:393  the pointer argument is NULL
IsNullPtr(ptr) == ptr = NULL
\* allocator.c:402  next does not hold the mark of an allocated block
NotMarkedAllocated(m, to_free) == RdNext(m, to_free) # NULL
\* allocator.c:406-407  the reconstructed header is not inside the arena
OutOfRange(to_free) == to_free < buffer \/ to_free >= buffer + buffer_size
\* allocator.c:411
AlreadyFree(m, to_free) == RdIsFree(m, to_free)

\* the freed block linked behind the head of the free list
PushFront_behind_head(m, head, block) ==
  IF head = NULL THEN [m |-> WrNext(m, block, NULL), head |-> block]
  ELSE [m |-> WrNext(WrNext(m, block, RdNext(m, head)), head, block), head |-> head]

\* allocator.c:421-422  free_block->next = free_list_head; free_list_head = free_block
PushFront(m, head, block) == [m |-> WrNext(m, block, head), head |-> block]

\* allocator.c:394, 403, 408, 412  what a dp_free that fails validation logs
FreeFailedLog == <<"error">>

\* allocator.c:393-411  dp_free returns 1 and leaves the arena as it is.
\* The result of dp_free on an arena is
\* [out, ret, m, head, avail, blk, merged, wr, rd, log]; rd holds the addresses
\* of the headers a field was read from before the return, log the sequence of
\* the logger callbacks invoked in a build with DP_LOG (DP_ERROR at
\* allocator.c:394, 403, 408, 412).
free_failed(m, head, avail, out, rd) ==
  [out |-> out, ret |-> 1, m |-> m, head |-> head, avail |-> avail,
   blk |-> NULL, merged |-> 0, wr |-> {}, rd |-> rd,
   log |-> IF out \in {"failed", "wild"} THEN FreeFailedLog ELSE <<>>]

\* allocator.c:420-443: the block r that coalsce returned put at the head
free_push(m, head, avail, to_free, r, pushed) ==
  IF r.out # "ok" THEN free_failed(m, head, avail, r.out, {to_free})
  ELSE [out |-> "ok", ret |-> 0, m |-> pushed.m, head |-> pushed.head,
        avail |-> r.avail, blk |-> r.block,
        merged |-> (IF r.left # NULL THEN 1 ELSE 0) + (IF r.right # NULL THEN 1 ELSE 0),
        wr |-> r.wr \cup {IsFreeSpan(to_free), NextSpan(r.block)},
        rd |-> {to_free},
        \* allocator.c:418 DP_INFO; 331, 348 DP_DEBUG for each neighbour found;
        \* 373, 381 DP_DEBUG for each merge; 387 DP_INFO after a merge
        log |-> <<"info">>
                \o (IF r.left # NULL THEN <<"debug", "debug">> ELSE <<>>)
                \o (IF r.right # NULL THEN <<"debug", "debug">> ELSE <<>>)
                \o (IF r.left # NULL \/ r.right # NULL THEN <<"info">> ELSE <<>>)]

\* allocator.c:420  free_block = coalsce(allocator, free_block)
free_coalsce(m, head, avail, to_free, r) ==
  free_push(m, head, avail, to_free, r, PushFront(r.m, r.head, r.block))

\* allocator.c:402-420: the header to_free validated and marked free
free_header(m, head, avail, to_free) ==
  \* to_free->next is read at allocator.c:402, before the range test of 406
  IF to_free % WordSize # 0 THEN free_failed(m, head, avail, "wild", {to_free})
  ELSE IF ~HdrMapped(to_free) THEN free_failed(m, head, avail, "fault", {to_free})
  ELSE IF NotMarkedAllocated(m, to_free) THEN free_failed(m, head, avail, "failed", {to_free})
  ELSE IF OutOfRange(to_free) THEN free_failed(m, head, avail, "failed", {to_free})
  ELSE IF AlreadyFree(m, to_free) THEN free_failed(m, head, avail, "failed", {to_free})
  ELSE free_coalsce(m, head, avail, to_free,
                    coalsce(WrIsFree(m, to_free, TRUE), head,
                            Wrap(avail + RdSize(m, to_free)), to_free))

\* allocator.c:393-444: dp_free on the arena with memory m, free list head and
\* available avail; out is "failed" for return 1 and "wild" for a header read
\* through a misaligned pointer
free_step(m, head, avail, ptr) ==
  IF IsNullPtr(ptr) THEN free_failed(m, head, avail, "failed", {})
  ELSE IF ~Mapped(ptr - WordSize) THEN free_failed(m, head, avail, "fault", {})
  ELSE free_header(m, head, avail, Wrap(ptr - RdOffset(m, ptr) - HeaderSize))

\* allocator.c:392-444
dp_free(ptr) ==
  /\ status = "run"
  /\ LET failed == /\ last' = [op |-> "free", on |-> ArenaId, arg |-> ptr, ret |-> 1,
                                blk |-> NULL, aux |-> 0, pre |-> available]
                   /\ UNCHANGED <<status, buffer, buffer_size, available,
                                  free_list_head, mem, live, dead, leak>>
         stop(how) == /\ status' = how
                      /\ last' = [op |-> "free", on |-> ArenaId, arg |-> ptr, ret |-> 1,
                                blk |-> NULL, aux |-> 0, pre |-> available]
                      /\ UNCHANGED <<buffer, buffer_size, available,
                                     free_list_head, mem, live, dead, leak>>
     IN \E r \in {free_step(mem, free_list_head, available, ptr)} :
          IF r.out = "failed" THEN failed
          \* a header read through a misaligned pointer: it faults, or it reads
          \* bytes that are no header and the validation rejects them
          ELSE IF r.out = "wild" THEN stop("fault") \/ failed
          ELSE IF r.out # "ok" THEN stop(r.out)
          ELSE
            /\ mem' = r.m
            /\ free_list_head' = r.head
            /\ available' = r.avail
            /\ live' = {a \in live : a.p # ptr}
            /\ dead' = dead \cup ({ptr} \cap (LivePtrs \cup dead))
            /\ leak' = leak \cup Outside(r.wr)
            /\ last' = [op |-> "free", on |-> ArenaId, arg |-> ptr, ret |-> 0,
                        blk |-> r.blk, aux |-> r.merged, pre |-> available]
            /\ UNCHANGED <<status, buffer, buffer_size>>

Next ==
  \/ \E buf \in Bases \cup {NULL}, size \in BufSizes \cup BadBufSizes : dp_init(buf, size)
  \/ \E size \in ReqSizes \cup {0} : dp_malloc(ArenaId, size)
  \/ \E size \in NoArenaSizes : dp_malloc(NULL, size)
  \/ \E ptr \in LivePtrs \cup dead \cup {NULL} : dp_free(ptr)

Spec == Init /\ [][Next]_vars

\* ------------------------------------------------------------ the caller
\* What the callers of the test suite do with the memory they were given.
CallerSizes == {16, 48}
Patterns == {0, 171}
TamperSizes == {8, 17}
TamperValues == {UINTPTR_MAX, 64}

\* the word at address w after bytes [lo, hi) were set to pattern
ByteFill(old, w, lo, hi, pattern) ==
  LET b0 == IF lo <= w /\ w < hi THEN pattern ELSE old % 256
      b1 == IF lo <= w + 1 /\ w + 1 < hi THEN pattern ELSE (old \div 256) % 256
      b7 == IF lo <= w + 7 /\ w + 7 < hi THEN pattern ELSE old \div TopByte
  IN b0 + 256 * b1 + TopByte * b7

\* allocator_fuzz.cpp:127-131  memset(ptr, pattern, size) on the pointer just returned
caller_memset(pattern) ==
  /\ status = "run"
  /\ last.op = "malloc" /\ last.ret # NULL
  /\ last.ret + last.arg <= MemTop
  /\ mem' = [w \in WordAddrs |->
               ByteFill(mem[w], w, last.ret, last.ret + last.arg, pattern)]
  /\ last' = [op |-> "memset", on |-> ArenaId, arg |-> pattern, ret |-> last.ret,
              blk |-> last.blk, aux |-> last.arg, pre |-> available]
  /\ UNCHANGED <<status, buffer, buffer_size, available, free_list_head,
                 live, dead, leak>>

\* the live allocations whose header does not carry the allocated mark
Tampered == {a \in live : HdrMapped(a.h) /\ RdNext(mem, a.h) # NULL}

\* edge_case_test.cpp:71-73  header->next = (block_header *)0xDEADBEEF
caller_overwrite_next(ptr, v) ==
  /\ status = "run"
  /\ ptr \in LivePtrs
  /\ Tampered = {}
  /\ HdrMapped(HeaderOf(mem, ptr))
  /\ mem' = WrNext(mem, HeaderOf(mem, ptr), v)
  /\ last' = [op |-> "tamper", on |-> ArenaId, arg |-> ptr, ret |-> 0,
              blk |-> HeaderOf(mem, ptr), aux |-> v, pre |-> available]
  /\ UNCHANGED <<status, buffer, buffer_size, available, free_list_head,
                 live, dead, leak>>

\* edge_case_test.cpp:78  header->next = nullptr
caller_restore_next(ptr) ==
  /\ status = "run"
  /\ ptr \in {a.p : a \in Tampered}
  /\ mem' = WrNext(mem, HeaderOf(mem, ptr), NULL)
  /\ last' = [op |-> "restore", on |-> ArenaId, arg |-> ptr, ret |-> 0,
              blk |-> HeaderOf(mem, ptr), aux |-> 0, pre |-> available]
  /\ UNCHANGED <<status, buffer, buffer_size, available, free_list_head,
                 live, dead, leak>>

\* edge_case_test.cpp:60-65  pointers that do not point into the arena
ForeignPtrs ==
  {p \in {buffer - WordSize, buffer + buffer_size, buffer + buffer_size + default_align} :
     p % WordSize = 0 /\ p > WordSize}

\* callers that fill what they allocate and may free a pointer twice
MemsetNext ==
  \/ \E buf \in Bases, size \in BufSizes : dp_init(buf, size)
  \/ \E size \in CallerSizes : dp_malloc(ArenaId, size)
  \/ \E ptr \in LivePtrs \cup dead : dp_free(ptr)
  \/ \E pattern \in Patterns : caller_memset(pattern)

MemsetSpec == Init /\ [][MemsetNext]_vars

\* callers that fill what they allocate and free pointers they were never given
ForeignNext ==
  \/ \E buf \in Bases, size \in BufSizes : dp_init(buf, size)
  \/ \E size \in CallerSizes : dp_malloc(ArenaId, size)
  \/ \E ptr \in LivePtrs \cup ForeignPtrs : dp_free(ptr)
  \/ \E pattern \in Patterns : caller_memset(pattern)

ForeignSpec == Init /\ [][ForeignNext]_vars

\* callers that overwrite the next field of the header of a live allocation
TamperNext ==
  \/ \E buf \in Bases, size \in BufSizes : dp_init(buf, size)
  \/ \E size \in TamperSizes : dp_malloc(ArenaId, size)
  \/ \E ptr \in LivePtrs : dp_free(ptr)
  \/ \E ptr \in LivePtrs, v \in TamperValues : caller_overwrite_next(ptr, v)
  \/ \E ptr \in LivePtrs : caller_restore_next(ptr)

TamperSpec == Init /\ [][TamperNext]_vars

\* an arena with room for three small blocks, where free blocks of equal size
\* that are not neighbours exist (functionality_test.cpp:47-108)
WideBufSize == MaxBufSize + default_align
WideSizes == {1, MaxReq}

WideNext ==
  \/ \E buf \in Bases : dp_init(buf, WideBufSize)
  \/ \E size \in WideSizes : dp_malloc(ArenaId, size)
  \/ \E ptr \in LivePtrs : dp_free(ptr)

WideSpec == Init /\ [][WideNext]_vars

\* an arena with room for four small blocks of two sizes, none left over
\* (functionality_test.cpp:203-224)
ReuseBufSize == MaxBufSize + 5 * default_align
ReuseSizes == {1, MaxReq - 7}

ReuseNext ==
  \/ dp_init(Bases_aligned, ReuseBufSize)
  \/ \E size \in ReuseSizes : dp_malloc(ArenaId, size)
  \/ \E ptr \in LivePtrs : Cardinality(dead \cup {ptr}) <= MaxFreed /\ dp_free(ptr)

ReuseSpec == Init /\ [][ReuseNext]_vars

\* allocator.c:393-396 in a build with DP_LOG, called with allocator == NULL:
\* DP_ERROR(allocator, ...) is allocator->logger.error(...) (log.h:22-25), a
\* read through the null allocator. What such a read can do: it faults, or it
\* yields bytes that are not the logger of an arena, and the call returns 1
\* without a callback of a logger having been invoked.
free_no_arena(ptr) ==
  {[out |-> "fault", ret |-> 1, log |-> <<>>], [out |-> "failed", ret |-> 1, log |-> <<>>]}

\* allocator.c:392-396  dp_free(NULL, ptr)
dp_free_no_arena(ptr) ==
  /\ status = "run"
  /\ \E r \in free_no_arena(ptr) :
       /\ status' = IF r.out = "failed" THEN status ELSE r.out
       /\ last' = [op |-> "free", on |-> NULL, arg |-> ptr, ret |-> r.ret,
                   blk |-> NULL, aux |-> 0, pre |-> available]
  /\ UNCHANGED <<buffer, buffer_size, available, free_list_head, mem, live, dead, leak>>

\* the calls of Spec in a build with DP_LOG, frees without an arena among them
LogNext ==
  \/ \E buf \in Bases, size \in BufSizes : dp_init(buf, size)
  \/ \E size \in ReqSizes \cup {0} : dp_malloc(ArenaId, size)
  \/ \E ptr \in LivePtrs \cup dead \cup {NULL} : dp_free(ptr)
  \/ \E ptr \in LivePtrs \cup {NULL} : dp_free_no_arena(ptr)

LogSpec == Init /\ [][LogNext]_vars

\* allocator.c:446-460  dp_get_fragmentation
\* the while loop (allocator.c:451-457): total is a size_t and wraps
RECURSIVE FragWalk(_, _, _, _, _)
FragWalk(m, curr, largest, total, fuel) ==
  IF curr = NULL THEN [out |-> "ok", largest |-> largest, total |-> total]
  ELSE IF fuel = 0 THEN [out |-> "hang", largest |-> largest, total |-> total]
  ELSE IF ~HdrMapped(curr) THEN [out |-> "fault", largest |-> largest, total |-> total]
  ELSE FragWalk(m, RdNext(m, curr),
                IF RdSize(m, curr) > largest THEN RdSize(m, curr) ELSE largest,
                Wrap(total + RdSize(m, curr)), fuel - 1)

\* allocator.c:459  total > 0
NonZeroTotal(total) == total > 0

\* allocator.c:459  1.0f - (float)largest / total, or 0.0f: the float as the
\* fraction num / den (sizes below 2^24 are floats exactly)
FragValue(largest, total) ==
  IF NonZeroTotal(total) THEN [num |-> total - largest, den |-> total]
  ELSE [num |-> 0, den |-> 1]

\* last.ret / last.aux is the float returned
dp_get_fragmentation ==
  /\ status = "run"
  /\ \E w \in {FragWalk(mem, free_list_head, 0, 0, Fuel)} :
       /\ status' = IF w.out = "ok" THEN status ELSE w.out
       /\ \E f \in {FragValue(w.largest, w.total)} :
            last' = [op |-> "frag", on |-> ArenaId, arg |-> 0, ret |-> f.num,
                     blk |-> NULL, aux |-> f.den, pre |-> available]
  /\ UNCHANGED <<buffer, buffer_size, available, free_list_head, mem, live, dead, leak>>

\* the runs of the fragmentation tests (stress_test.cpp:45-92,
\* edge_case_test.cpp:97-109)
FragNext ==
  \/ \E buf \in Bases : dp_init(buf, WideBufSize)
  \/ \E size \in WideSizes : dp_malloc(ArenaId, size)
  \/ \E ptr \in LivePtrs : dp_free(ptr)
  \/ dp_get_fragmentation

FragSpec == Init /\ [][FragNext]_vars

\* buffers at the edge of what dp_init accepts, requests that fill the first
\* block exactly and requests near the top of size_t
\* (edge_case_test.cpp:12-48, basic_test.cpp:27-36)
EdgeBufSizes ==
  {HeaderSize - 1, HeaderSize, HeaderSize + 1,
   HeaderSize + WordSize - 1, HeaderSize + WordSize}

ExactSize(buf) ==
  LET start == align_address(buf, default_align)
  IN MaxBufSize - (start - buf) - HeaderSize - (UserPtr(start) - (start + HeaderSize))

ExactSizes == {ExactSize(buf) : buf \in Bases}

\* the largest request the test at allocator.c:238 lets through on a new arena
AdmittedSize(buf) ==
  LET start == align_address(buf, default_align)
  IN MaxBufSize - (start - buf) - HeaderSize - default_align

AdmittedSizes == {AdmittedSize(buf) : buf \in Bases}
HugeSizes == {MaxBufSize + 1, SizeMod - default_align, UINTPTR_MAX}

EdgeNext ==
  \/ \E buf \in Bases \cup {NULL}, size \in BufSizes \cup EdgeBufSizes : dp_init(buf, size)
  \/ \E size \in ExactSizes \cup AdmittedSizes \cup HugeSizes : dp_malloc(ArenaId, size)
  \/ \E ptr \in LivePtrs : dp_free(ptr)

EdgeSpec == Init /\ [][EdgeNext]_vars

\* a sequence of calls run on two arenas over the same buffer
\* (functionality_test.cpp:6-27): the arena a new dp_init leaves on the
\* zero-filled buffer, and the runs of up to depth valid calls from arenas a
\* and b, dp_malloc of the sizes of WideSizes and dp_free of the pointers the
\* run was given, compared by the values returned
FreshArena ==
  [m |-> WrNext(WrIsFree(WrSize([a \in WordAddrs |-> 0], buffer,
                                FirstBlockSize(buffer_size)),
                         buffer, TRUE),
                buffer, NULL),
   head |-> buffer,
   avail |-> Wrap(buffer_size - HeaderSize)]

RECURSIVE SameRuns(_, _, _, _)

\* the results ra and rb of one call agree, and so do the runs that follow it
SameAfter(ra, rb, ptrs, depth) ==
  /\ ra.out = rb.out
  /\ ra.ret = rb.ret
  /\ ra.out = "ok" => SameRuns(ra, rb, ptrs, depth - 1)

SameRuns(a, b, ptrs, depth) ==
  \/ depth = 0
  \/ /\ \A size \in WideSizes :
           \E ra \in {malloc_step(a.m, a.head, a.avail, size)} :
              SameAfter(ra, malloc_step(b.m, b.head, b.avail, size),
                        ptrs \cup {ra.ret}, depth)
      /\ \A ptr \in ptrs :
           SameAfter(free_step(a.m, a.head, a.avail, ptr),
                     free_step(b.m, b.head, b.avail, ptr), ptrs \ {ptr}, depth)

\* ------------------------------------------------------------ observation
\* the blocks reachable from head by next, in list order
RECURSIVE FreeListFrom(_, _, _)
FreeListFrom(m, h, fuel) ==
  IF h = NULL \/ fuel = 0 \/ ~HdrMapped(h) THEN <<>>
  ELSE <<h>> \o FreeListFrom(m, RdNext(m, h), fuel - 1)

FreeList == FreeListFrom(mem, free_list_head, Fuel)
FreeBlocks == {FreeList[i] : i \in DOMAIN FreeList}

RECURSIVE SumSizes(_, _)
SumSizes(m, list) ==
  IF list = <<>> THEN 0 ELSE RdSize(m, Head(list)) + SumSizes(m, Tail(list))

\* the headers met when stepping from buffer by sizeof(block_header) + size
RECURSIVE TilesFrom(_, _, _)
TilesFrom(m, h, fuel) ==
  IF fuel = 0 \/ h < buffer \/ h >= buffer + buffer_size \/ ~HdrMapped(h) THEN <<>>
  ELSE <<h>> \o TilesFrom(m, next_phys(m, h), fuel - 1)

Tiles == TilesFrom(mem, buffer, Fuel)
TileBlocks == {Tiles[i] : i \in DOMAIN Tiles}
\* where the stepping stops
TilingEnd == IF Tiles = <<>> THEN buffer ELSE next_phys(mem, Tiles[Len(Tiles)])

ArenaEnd == buffer + buffer_size
Running == status = "run"
\* an operation of the allocator has just returned
Returned == Running /\ last.op \in {"init", "malloc", "free"}

\* allocator.c:252-254  the padding of a request served from block
Padding(block) == Wrap(UserPtr(block) - Wrap(block + HeaderSize))
\* the positions in the free list of the blocks that can hold n bytes
Candidates(n) ==
  {i \in DOMAIN FreeList : RdSize(mem, FreeList[i]) >= n + Padding(FreeList[i])}
\* allocator.c:258  what the block at position i has left over after n bytes
Residual(i, n) == RdSize(mem, FreeList[i]) - (n + Padding(FreeList[i]))
\* the first position, in list order, with the smallest residual
BestCandidate(n) ==
  CHOOSE i \in Candidates(n) :
    \A j \in Candidates(n) :
      Residual(i, n) < Residual(j, n) \/ (Residual(i, n) = Residual(j, n) /\ i <= j)

\* ----------------------------------------------------------------- claims

\* C1: after a successful dp_init and any sequence of dp_malloc and dp_free
\* calls, available equals the sum of the size fields of the blocks reachable
\* from free_list_head.
AvailableIsFreeSum == Returned => available = SumSizes(mem, FreeList)

\* C2: once every live allocation has been freed the free list holds exactly
\* one block: it starts at buffer, its next is NULL, its size is
\* buffer_size - sizeof(block_header), and available equals that size.
AllFreedOneBlock ==
  (Returned /\ live = {}) =>
     /\ free_list_head = buffer
     /\ RdNext(mem, buffer) = NULL
     /\ RdSize(mem, buffer) = buffer_size - HeaderSize
     /\ RdIsFree(mem, buffer)
     /\ available = buffer_size - HeaderSize

\* every allocation has been freed again, and the last free merged the block
\* with both of its neighbours
AllFreedWitness ==
  /\ Returned /\ live = {} /\ Cardinality(dead) >= 2
  /\ last.op = "free" /\ last.ret = 0 /\ last.aux = 2

\* C3: every byte the allocator writes (block headers, remainder headers of a
\* split, reverse-offset bytes) lies inside [buffer, buffer + buffer_size).
WritesStayInArena == leak = {}

\* C4: stepping from buffer by sizeof(block_header) + size lands only on block
\* headers (the free-list blocks and the headers of the live allocations) and
\* ends exactly at buffer + buffer_size.
BlocksTileArena ==
  Returned => /\ TilingEnd = ArenaEnd
              /\ TileBlocks = FreeBlocks \cup {a.h : a \in live}

\* C5: every non-NULL pointer p returned by dp_malloc(n) is a multiple of
\* alignof(max_align_t), and [p, p + n) lies inside the payload of the block it
\* was carved from and inside [buffer, buffer + buffer_size).
ReturnedRangeInBlockAndArena ==
  [][(last'.op = "malloc" /\ last'.ret # NULL) =>
       LET q == last'.ret
           n == last'.arg
           b == last'.blk
       IN /\ q % default_align = 0
          /\ b + HeaderSize <= q
          /\ q + n <= b + HeaderSize + RdSize(mem, b)
          /\ buffer <= q
          /\ q + n <= ArenaEnd]_vars

\* C6: the ranges [p, p + n) of any two live allocations are disjoint, and no
\* live range contains a byte of a block header on the tiling, of the header
\* of a live allocation, or the reverse-offset byte of a live allocation.
LiveRangesDisjoint ==
  Returned =>
     /\ \A a, b \in live : a # b => (a.p + a.n <= b.p \/ b.p + b.n <= a.p)
     /\ \A a \in live : \A h \in TileBlocks \cup {b.h : b \in live} :
           (h + HeaderSize <= a.p \/ a.p + a.n <= h)
     /\ \A a, b \in live : ~(a.p <= b.p - 1 /\ b.p - 1 < a.p + a.n)

\* two allocations are live, one of them next to the other
TwoLiveWitness ==
  /\ Returned /\ last.op = "malloc" /\ last.ret # NULL
  /\ \E a, b \in live : a # b /\ next_phys(mem, a.h) = b.h

\* C7: no two blocks that are physically adjacent are both free: for every
\* free-list block b, the block starting at b + sizeof(block_header) + b.size
\* (if inside the arena) is allocated.
NoAdjacentFreeBlocks ==
  Returned =>
     \A b \in FreeBlocks :
        LET nb == next_phys(mem, b)
        IN (nb >= buffer /\ nb < ArenaEnd /\ HdrMapped(nb)) => ~RdIsFree(mem, nb)

\* a dp_free has just merged the freed block with a free neighbour
CoalescedWitness ==
  /\ Returned /\ last.op = "free" /\ last.ret = 0 /\ last.aux >= 1
  /\ live # {}

\* C8: a block of the tiling is reachable from free_list_head if and only if
\* its is_free flag is true, and each such block is on the free list once.
FreeListIsFreeBlocks ==
  Returned =>
     /\ \A b \in TileBlocks : (b \in FreeBlocks <=> RdIsFree(mem, b))
     /\ \A i, j \in DOMAIN FreeList : FreeList[i] = FreeList[j] => i = j

\* the tiling holds two free blocks with an allocated block between them
FreeAndAllocatedWitness ==
  /\ Returned /\ Len(FreeList) >= 2
  /\ \E b \in TileBlocks : ~RdIsFree(mem, b) /\ b \notin FreeBlocks

\* C9: for every block of the tiling, the block is allocated if and only if
\* its next field holds the allocated sentinel; every free-list member,
\* the last one included, has a next different from that of allocated blocks.
AllocatedIffSentinel ==
  Returned => \A b \in TileBlocks : (~RdIsFree(mem, b) <=> RdNext(mem, b) = NULL)

\* C10: for every live pointer p the byte at p - 1 holds k with
\* 1 <= k <= alignof(max_align_t), and p - k - sizeof(block_header) is the
\* header of the block that contains p, until p is freed.
ReverseOffsetRecoversHeader ==
  Returned =>
     \A a \in live :
        LET k == RdOffset(mem, a.p)
        IN /\ 1 <= k /\ k <= default_align
           /\ HeaderOf(mem, a.p) = a.h
           /\ a.h + HeaderSize <= a.p
           /\ a.p + a.n <= next_phys(mem, a.h)
           /\ ~RdIsFree(mem, a.h)

\* a live pointer has outlived a dp_malloc and a dp_free of other blocks
OffsetSurvivesWitness ==
  /\ Returned /\ last.op = "free" /\ last.ret = 0
  /\ \E a \in live : a.p < last.arg
  /\ \E a \in live : a.p > last.arg

\* C11: in any interleaving of dp_malloc and dp_free calls, dp_free on a
\* pointer that is live returns 0, and afterwards the block that contains the
\* pointer is free.
FreeOfLiveSucceeds ==
  [][(last'.op = "free" /\ last'.arg \in LivePtrs) =>
       /\ status' = "run"
       /\ last'.ret = 0
       /\ RdIsFree(mem', last'.blk)
       /\ last'.blk + HeaderSize <= last'.arg
       /\ last'.arg < next_phys(mem', last'.blk)]_vars

\* C12: a second dp_free on a pointer that was freed, with no dp_malloc in
\* between that returned the same pointer again, returns non-zero and leaves
\* available, free_list_head and every header field unchanged.
DoubleFreeRejected ==
  [][(last'.op = "free" /\ last'.arg \in dead) =>
       /\ status' = "run"
       /\ last'.ret # 0
       /\ UNCHANGED <<available, free_list_head, mem>>]_vars

\* C13: dp_free(ptr) with ptr outside [buffer, buffer + buffer_size) returns
\* non-zero and leaves available, the free list and every block header
\* unchanged, whatever the payloads of the arena contain.
ForeignFreeRejected ==
  [][(/\ last'.op = "free" /\ last'.arg # NULL
      /\ (last'.arg < buffer \/ last'.arg >= ArenaEnd)) =>
       /\ last'.ret # 0
       /\ UNCHANGED <<available, free_list_head, mem>>]_vars

\* C14: while the next field of the header of a live allocation holds a value
\* other than the allocated mark, dp_free on that pointer returns non-zero and
\* leaves available and the free list unchanged; after the field is restored,
\* dp_free on the same pointer returns 0.
TamperedFreeRejected ==
  [][/\ (last'.op = "free" /\ last'.arg \in {a.p : a \in Tampered}) =>
          /\ last'.ret # 0
          /\ UNCHANGED <<available, free_list_head, mem>>
     /\ (last.op = "restore" /\ last'.op = "free" /\ last'.arg = last.arg) =>
          /\ status' = "run"
          /\ last'.ret = 0]_vars

\* C15: dp_free(allocator, NULL) returns non-zero and changes nothing, so a
\* dp_free(NULL) inserted anywhere leaves the state every other call starts
\* from, and with it the result of every other call, as it was.
FreeNullIsNoOp ==
  [][(last'.op = "free" /\ last'.arg = NULL) =>
       /\ last'.ret # 0
       /\ UNCHANGED <<status, buffer, buffer_size, available, free_list_head,
                      mem, live, dead, leak>>]_vars

\* dp_free(NULL) was called between two calls of an arena with live allocations
FreeNullWitness ==
  /\ Returned /\ last.op = "free" /\ last.arg = NULL /\ last.ret = 1
  /\ live # {} /\ dead # {}

\* C16: a successful dp_malloc(s) immediately followed by dp_free of the
\* returned pointer restores available to the value it had before the
\* dp_malloc, whether the allocation split a block or consumed it whole.
AllocFreeRestoresAvailable ==
  [][(/\ last.op = "malloc" /\ last.ret # NULL
      /\ last'.op = "free" /\ last'.arg = last.ret) =>
       /\ status' = "run"
       /\ last'.ret = 0
       /\ available' = last.pre]_vars

\* C20: dp_malloc(allocator, 0) returns NULL in every reachable state, and
\* dp_malloc(NULL, n) returns NULL for every n without reading the allocator;
\* neither changes anything.
ZeroOrNoArenaRefused ==
  [][(last'.op = "malloc" /\ (last'.arg = 0 \/ last'.on = NULL)) =>
       /\ last'.ret = NULL
       /\ UNCHANGED <<status, buffer, buffer_size, available, free_list_head,
                      mem, live, dead, leak>>]_vars

\* dp_malloc(NULL, n) was refused in a state where the arena could serve n
NoArenaWitness ==
  /\ Returned /\ last.op = "malloc" /\ last.on = NULL /\ last.arg = MaxReq
  /\ last.ret = NULL
  /\ free_list_head # NULL /\ RdSize(mem, free_list_head) >= MaxReq + default_align

\* C17: among the free-list blocks that can hold the request, dp_malloc(n)
\* allocates from the one with the smallest size - (n + padding); of several
\* such blocks it takes the one met first when walking from free_list_head,
\* which need not be the head.
BestFitChosen ==
  [][(last'.op = "malloc" /\ last'.ret # NULL) =>
       /\ Candidates(last'.arg) # {}
       /\ last'.blk = FreeList[BestCandidate(last'.arg)]]_vars

\* dp_malloc has just taken one of two blocks that were equally good and
\* neither a perfect fit; the other one is still in the free list
TieWitness ==
  /\ Returned /\ last.op = "malloc" /\ last.ret # NULL /\ last.aux = 0
  /\ \E b \in FreeBlocks :
        /\ RdSize(mem, b) = RdSize(mem, last.blk)
        /\ RdSize(mem, b) > last.arg + Padding(b)

\* C18: for n > 0 on an initialised arena, dp_malloc(n) returns non-NULL if
\* and only if n + alignof(max_align_t) <= available and at least one
\* free-list block has size >= n + that block's padding.
MallocSucceedsIff ==
  [][(/\ last'.op = "malloc" /\ last'.on = ArenaId /\ last'.arg > 0
      /\ status' = "run") =>
       (last'.ret # NULL <=>
          /\ last'.arg + default_align <= available
          /\ Candidates(last'.arg) # {})]_vars

\* dp_malloc returned NULL although available was enough: every free block
\* was too small
FragmentedRefusalWitness ==
  /\ Returned /\ last.op = "malloc" /\ last.arg > 0 /\ last.ret = NULL
  /\ last.arg + default_align <= available
  /\ Len(FreeList) >= 2

\* C19: whenever dp_malloc returns NULL, available, free_list_head and the
\* next, size and is_free fields of every block are as before the call.
RefusedMallocChangesNothing ==
  [][(last'.op = "malloc" /\ last'.ret = NULL /\ status' = "run") =>
       UNCHANGED <<available, free_list_head, mem>>]_vars

\* the search of dp_malloc ran over a fragmented free list and found no block
\* for a request that available could cover
NoFitRefusalWitness ==
  /\ Returned /\ last.op = "malloc" /\ last.on = ArenaId /\ last.ret = NULL
  /\ last.arg = MaxReq /\ last.arg + default_align <= available
  /\ live # {} /\ Cardinality(FreeBlocks) = 2

\* C21: dp_malloc(n) returns NULL for every n greater than buffer_size, over
\* the whole range of size_t, the sizes whose sum with the alignment or with the
\* padding wraps included
OversizeRefused ==
  [][(status = "run" /\ last'.op = "malloc" /\ last'.on = ArenaId
      /\ last'.arg > buffer_size)
     => last'.ret = NULL]_vars

\* C22: on a freshly initialised arena a request for the largest payload the
\* single free block can hold succeeds and empties the free list, and while
\* the free list is empty every dp_malloc of a positive size returns NULL
ExactFitFillsArena ==
  [][/\ (/\ last.op = "init" /\ last.ret = 1
          /\ last'.op = "malloc" /\ last'.on = ArenaId
          /\ last'.arg = RdSize(mem, free_list_head) - Padding(free_list_head))
         => (last'.ret # NULL /\ free_list_head' = NULL)
     /\ (/\ status = "run" /\ free_list_head = NULL
          /\ last'.op = "malloc" /\ last'.on = ArenaId /\ last'.arg > 0)
         => last'.ret = NULL]_vars

\* C22 read with the largest request that dp_malloc admits on a new arena,
\* available less the alignment
AdmittedFitFillsArena ==
  [][(/\ last.op = "init" /\ last.ret = 1
      /\ last'.op = "malloc" /\ last'.on = ArenaId
      /\ last'.arg = available - default_align)
     => (last'.ret # NULL /\ free_list_head' = NULL)]_vars

\* C23: when dp_init returns true, buffer is the base rounded up to a multiple
\* of 16, buffer_size is the byte count less the rounding, and the arena is
\* one free block at buffer of size buffer_size - 24 with next NULL, which is
\* free_list_head and whose size is available
InitState ==
  (last.op = "init" /\ last.ret = 1)
  => LET up == ((last.aux + default_align - 1) \div default_align) * default_align
     IN /\ buffer = up
        /\ buffer_size = last.arg - (up - last.aux)
        /\ Tiles = <<buffer>>
        /\ RdSize(mem, buffer) = buffer_size - HeaderSize
        /\ RdIsFree(mem, buffer)
        /\ RdNext(mem, buffer) = NULL
        /\ available = buffer_size - HeaderSize
        /\ free_list_head = buffer

\* dp_init returned true for a base that is not a multiple of 16
InitUnalignedWitness ==
  last.op = "init" /\ last.ret = 1 /\ last.aux % default_align # 0

\* C24: dp_init returns false exactly when the buffer is NULL, or the size is
\* below the header size, or the size is at most the alignment offset plus the
\* header size; when it returns false the arena value and the buffer are as
\* they were
InitRefusedIff ==
  [][(last'.op = "init")
     => LET buf == last'.aux
            size == last'.arg
            up == ((buf + default_align - 1) \div default_align) * default_align
            bad == \/ buf = NULL
                   \/ size < HeaderSize
                   \/ size <= (up - buf) + HeaderSize
        IN /\ (last'.ret = 0) <=> bad
           /\ (last'.ret = 0)
              => UNCHANGED <<status, buffer, buffer_size, available,
                             free_list_head, mem>>]_vars

\* dp_init refused a buffer of at least the header size only for its alignment
InitRefusedForAlignmentWitness ==
  /\ last.op = "init" /\ last.ret = 0 /\ last.aux # NULL
  /\ last.arg > HeaderSize

\* C25: whenever every allocation made so far has been freed, the arena
\* behaves as a newly initialised one: every sequence of dp_malloc calls and of
\* dp_free calls on the pointers they return gives the same pointers and
\* return codes as on a new dp_init of the same buffer
AllFreedLikeFresh ==
  (Returned /\ live = {})
  => SameRuns([m |-> mem, head |-> free_list_head, avail |-> available],
              FreshArena, {}, ReplayDepth)

\* every allocation was freed, the last one merging with a neighbour, and the
\* buffer holds bytes a new arena does not
AllFreedStaleWitness ==
  /\ Returned /\ live = {} /\ last.op = "free" /\ last.ret = 0 /\ last.aux >= 1
  /\ mem # FreshArena.m

\* C26: a successful dp_malloc rounds the end of the allocation up to the
\* alignment; when the size of the chosen block less the rounded size is below
\* the header size the block is handed out whole, its size unchanged, and
\* leaves the free list; otherwise a free block of the old size less the rounded
\* size less 24 is written at the rounded boundary and stands where the chosen
\* block stood in the free list, the other free blocks keeping their order
SplitOrWhole ==
  [][(status' = "run" /\ last'.op = "malloc" /\ last'.ret # NULL)
     => LET b == last'.blk
            old == RdSize(mem, b)
            end == b + HeaderSize + last'.arg + Padding(b)
            rounded == ((end + default_align - 1) \div default_align) * default_align
                       - b - HeaderSize
            new == b + HeaderSize + rounded
            before == FreeList
            after == FreeListFrom(mem', free_list_head', Fuel)
            Other(x) == x # b
        IN IF old - rounded < HeaderSize
           THEN /\ RdSize(mem', b) = old
                /\ after = SelectSeq(before, Other)
           ELSE /\ RdSize(mem', b) = rounded
                /\ HdrMapped(new)
                /\ RdSize(mem', new) = old - rounded - HeaderSize
                /\ RdIsFree(mem', new)
                /\ after = [i \in DOMAIN before |->
                              IF before[i] = b THEN new ELSE before[i]]]_vars

\* C27: after a successful dp_free the freed block, or the block it was merged
\* into, is free_list_head, and the blocks that were on the free list before
\* the call and were not absorbed follow it in the order they had
FreedBlockLeadsList ==
  [][(status' = "run" /\ last'.op = "free" /\ last'.ret = 0)
     => LET blk == last'.blk
            b == HeaderOf(mem, last'.arg)
            \* the blocks of the list that are no neighbours of the freed block
            Kept(x) == next_phys(mem, x) # b /\ next_phys(mem, b) # x
        IN /\ free_list_head' = blk
           /\ FreeListFrom(mem', free_list_head', Fuel)
              = <<blk>> \o SelectSeq(FreeList, Kept)]_vars

\* a block was freed without a merge while two other blocks were on the list
FreedBeforeTwoWitness ==
  /\ Returned /\ last.op = "free" /\ last.ret = 0 /\ last.aux = 0
  /\ Len(FreeList) >= 3

\* C28: dp_free of a block merges it with the free block that ends where it
\* starts and with the free block that starts where it ends, wherever they are
\* in the free list: the result starts at the left neighbour if there is one
\* and at the block otherwise, its size is the sum of the merged sizes plus 24
\* for each absorbed header, and the free list grows by one, keeps its length
\* or shrinks by one for no, one or two free neighbours
MergeWithNeighbours ==
  [][(status' = "run" /\ last'.op = "free" /\ last'.ret = 0)
     => LET b == HeaderOf(mem, last'.arg)
            Ls == {x \in FreeBlocks : x + HeaderSize + RdSize(mem, x) = b}
            Rs == {x \in FreeBlocks : b + HeaderSize + RdSize(mem, b) = x}
            start == IF Ls = {} THEN b ELSE CHOOSE x \in Ls : TRUE
            absorbed == (IF Ls = {} THEN <<>> ELSE <<b>>)
                        \o (IF Rs = {} THEN <<>> ELSE <<CHOOSE x \in Rs : TRUE>>)
        IN /\ Cardinality(Ls) <= 1 /\ Cardinality(Rs) <= 1
           /\ last'.blk = start
           /\ RdSize(mem', start)
              = RdSize(mem, start) + SumSizes(mem, absorbed) + HeaderSize * Len(absorbed)
           /\ Len(FreeListFrom(mem', free_list_head', Fuel))
              = Len(FreeList) + 1 - Len(absorbed)]_vars

\* C29: in dp_malloc the rounded allocation size of the chosen block never
\* exceeds the size of that block, so the remainder does not wrap
RoundedFitsBlock ==
  [][(status' = "run" /\ last'.op = "malloc" /\ last'.ret # NULL)
     => RoundedAllocSize(last'.blk, Wrap(last'.arg + Padding(last'.blk)))
        <= RdSize(mem, last'.blk)]_vars

\* C30: after every operation that returned the free list is well formed:
\* following next from free_list_head reaches NULL, no block is met twice, and
\* every block met is the header of a block of the tiling inside the arena
FreeListWellFormed ==
  Returned
  => /\ Len(FreeList) < Fuel
     /\ FreeList # <<>> => RdNext(mem, FreeList[Len(FreeList)]) = NULL
     /\ free_list_head # NULL => FreeList # <<>>
     /\ \A i, j \in DOMAIN FreeList : FreeList[i] = FreeList[j] => i = j
     /\ \A i \in DOMAIN FreeList :
          /\ FreeList[i] \in TileBlocks
          /\ InArena(FreeList[i], FreeList[i] + HeaderSize)

\* C31: dp_free validates in the order null pointer, arena range, allocated
\* mark, is_free, so that no field of the reconstructed header is read when
\* the address of that header is outside [buffer, buffer + buffer_size)
HeaderReadOnlyInArena ==
  [][(status = "run" /\ last'.op = "free")
     => \A h \in free_step(mem, free_list_head, available, last'.arg).rd :
           buffer <= h /\ h < buffer + buffer_size]_vars

\* the block at header b has a block before it and a block behind it in the
\* arena and both are allocated
BetweenAllocated(m, b) ==
  /\ \E i \in DOMAIN Tiles : Tiles[i] # b /\ next_phys(m, Tiles[i]) = b /\ ~RdIsFree(m, Tiles[i])
  /\ \E i \in DOMAIN Tiles : Tiles[i] = next_phys(m, b) /\ ~RdIsFree(m, Tiles[i])

\* C32: when an allocation of size n whose two physical neighbours are
\* allocated is freed and the next call is dp_malloc(n), the pointer that was
\* freed is returned, whatever other free blocks are on the free list
FreedBlockReused ==
  [][(/\ status' = "run" /\ last'.op = "free" /\ last'.ret = 0
      /\ BetweenAllocated(mem, HeaderOf(mem, last'.arg)))
     => \A a \in live :
          a.p = last'.arg
          => malloc_step(mem', free_list_head', available', a.n).ret = a.p]_vars

\* C32 as the code has it: the freed pointer is returned when the request with
\* the alignment added does not exceed available and no other block of the
\* free list leaves less of its size unused than the freed block does
FreedBlockReusedIfBest ==
  [][(/\ status' = "run" /\ last'.op = "free" /\ last'.ret = 0
      /\ BetweenAllocated(mem, HeaderOf(mem, last'.arg)))
     => \A a \in live :
          (/\ a.p = last'.arg
           /\ a.n + default_align <= available'
           /\ \A x \in FreeBlocks :
                RdSize(mem, x) >= a.n + Padding(x)
                => RdSize(mem, x) - Padding(x) >= RdSize(mem, a.h) - Padding(a.h))
          => malloc_step(mem', free_list_head', available', a.n).ret = a.p]_vars

\* a block between two allocated blocks was freed while another block, which
\* can hold what the freed block held, was on the free list
FreedBesideOtherWitness ==
  /\ Returned /\ last.op = "free" /\ last.ret = 0 /\ last.aux = 0
  /\ free_list_head = last.blk
  /\ \E i \in DOMAIN Tiles : Tiles[i] # last.blk /\ next_phys(mem, Tiles[i]) = last.blk
  /\ \E i \in DOMAIN Tiles : Tiles[i] = next_phys(mem, last.blk)
  /\ \E i \in DOMAIN FreeList :
       i > 1 /\ RdSize(mem, FreeList[i]) >= RdSize(mem, last.blk)

\* the largest of the sizes of the blocks of list
RECURSIVE LargestSize(_, _)
LargestSize(m, list) ==
  IF list = <<>> THEN 0
  ELSE IF RdSize(m, Head(list)) > LargestSize(m, Tail(list))
       THEN RdSize(m, Head(list)) ELSE LargestSize(m, Tail(list))

\* C33: dp_get_fragmentation changes no state of the arena; it returns 0 when
\* the free list is empty or the total free size is 0, 0 when the free list
\* holds one block, otherwise 1 - largest / total, and the result is in [0, 1].
FragmentationValue ==
  [][(status = "run" /\ status' = "run" /\ last'.op = "frag") =>
       /\ UNCHANGED <<buffer, buffer_size, available, free_list_head, mem>>
       /\ (FreeList = <<>> \/ SumSizes(mem, FreeList) = 0) => last'.ret = 0
       /\ Len(FreeList) = 1 => last'.ret = 0
       /\ (Len(FreeList) > 1 /\ SumSizes(mem, FreeList) > 0)
            => /\ last'.aux = SumSizes(mem, FreeList)
               /\ last'.ret = SumSizes(mem, FreeList) - LargestSize(mem, FreeList)
       /\ 0 <= last'.ret /\ last'.ret <= last'.aux /\ last'.aux > 0]_vars

\* C34: in a build with logging a successful dp_malloc invokes the info
\* callback once and nothing else, a dp_malloc that returns NULL invokes no
\* callback, and a dp_free that fails validation (null, out of range, bad
\* sentinel, double free) invokes the error callback once and nothing else.
LogCallbacks ==
  [][(status = "run" /\ status' = "run") =>
       /\ (last'.op = "malloc" /\ last'.on = ArenaId)
            => IF last'.arg = 0 THEN last'.ret = NULL
               ELSE malloc_step(mem, free_list_head, available, last'.arg).log
                    = IF last'.ret # NULL THEN <<"info">> ELSE <<>>
       /\ (last'.op = "free" /\ last'.on = ArenaId /\ last'.ret # 0)
            => free_step(mem, free_list_head, available, last'.arg).log = <<"error">>
       /\ (last'.op = "free" /\ last'.on = NULL)
            => \A r \in free_no_arena(last'.arg) :
                 r.out = "failed" => r.log = <<"error">>]_vars

\* C34 on the calls that are given an arena
LogCallbacksOnArena ==
  [][(status = "run" /\ status' = "run") =>
       /\ (last'.op = "malloc" /\ last'.on = ArenaId)
            => IF last'.arg = 0 THEN last'.ret = NULL
               ELSE malloc_step(mem, free_list_head, available, last'.arg).log
                    = IF last'.ret # NULL THEN <<"info">> ELSE <<>>
       /\ (last'.op = "free" /\ last'.on = ArenaId /\ last'.ret # 0)
            => free_step(mem, free_list_head, available, last'.arg).log = <<"error">>]_vars

\* the positions in the free list of the blocks that n bytes fill to the last byte
PerfectCandidates(n) == {i \in Candidates(n) : Residual(i, n) = 0}

\* C35: the best-fit walk stops at the first candidate whose fit is 0 and
\* otherwise visits every block of the free list: after a successful dp_malloc
\* num_iterations of a stats build is the position of the first such candidate,
\* which is the block taken, or, with no such candidate, at least the number of
\* blocks that were on the free list.
WalkStopsAtPerfectFit ==
  [][(/\ status = "run" /\ status' = "run"
      /\ last'.op = "malloc" /\ last'.on = ArenaId /\ last'.ret # NULL)
     => \E r \in {malloc_step(mem, free_list_head, available, last'.arg)} :
          IF PerfectCandidates(last'.arg) = {}
          THEN r.num_iterations >= Len(FreeList)
          ELSE \E k \in PerfectCandidates(last'.arg) :
                 /\ \A j \in PerfectCandidates(last'.arg) : k <= j
                 /\ r.num_iterations = k
                 /\ last'.blk = FreeList[k]]_vars

\* a request was served by splitting a block that was not the only one of the
\* free list: no block was a perfect fit and the walk went through the list
WalkedWholeListWitness ==
  /\ Returned /\ last.op = "malloc" /\ last.ret # NULL /\ last.aux = 1
  /\ Len(FreeList) >= 2
  /\ free_list_head # next_phys(mem, last.blk)

====
